---- MODULE Spec2Model ----
(***************************************************************************)
(* State-machine model of backend/amazon_crawler.py: the run of main()     *)
(* (one call of AmazonCrawler.crawl_category followed by the final save    *)
(* and close), the fetch routine _safe_get under its @retry decorator,     *)
(* extract_product_data, _save_data, and the signal handler that calls     *)
(* initiate_shutdown.  The browser and the file system are the             *)
(* environment: every answer they give is drawn from a small set.          *)
(***************************************************************************)
EXTENDS Integers, Sequences, FiniteSets

\* ------------------------------------------------------------------ bounds
\* Largest number of product links the environment puts on a category page.
MaxLinks == 3

\* -------------------------------------------------------- program constants
\* main(): crawl_category(category_url, max_pages=2)
max_pages == 2
\* @retry(tries=3, delay=2, backoff=2)
tries == 3
delay == 2
backoff == 2
\* if len(products_data) % 5 == 0
SaveEvery == 5

VARIABLES
    pc,               \* position of the main coroutine
    is_shutting_down, \* AmazonCrawler.is_shutting_down
    page_state,       \* the page of crawl_category: "none", "open", "closed"
    page_num,         \* loop variable of the category-page loop
    product_urls,     \* hrefs collected from the current category page
    idx,              \* position of the product loop in product_urls
    products_data,    \* the result buffer of crawl_category
    page_title,       \* span#productTitle on the product page last read
    product_data,     \* what extract_product_data returned for this product
    sg_ctx,           \* caller of the _safe_get call: "cat" or "prod"
    sg_tries,         \* _tries of the retry loop
    sg_delay,         \* _delay of the retry loop
    sg_exc,           \* exception in flight inside _safe_get
    sg_hist,          \* answers of the navigations of this call, in order
    sg_pre,           \* pre-request delays slept in this call
    sg_extra,         \* block-specific extra sleeps slept in this call
    sg_sleeps,        \* the ranges (seconds) of those extra sleeps, in order
    sg_backoffs,      \* backoff sleeps of the retry loop in this call
    sg_entry_flag,    \* an entry check of this call read is_shutting_down true
    sg_result,        \* "none", "running", "returned", "raised"
    nav_after_flag,   \* some page.goto started while is_shutting_down
    flush_log,        \* every _save_data call: [kind, data, ok]
    main_exc,         \* how the try block of main ended
    visited_ok,       \* links whose fetch returned and whose title was found
    last_cat,         \* page number of the last category fetch started
    last_visit,       \* << page, link >> of the last product fetch started
    page_closes,      \* calls of Page.close() made on the page so far
    use_after_close,  \* some fetch or extraction ran on the page once closed
    ex_page,          \* what the selectors of extract_product_data find
    ex_rec,           \* the dict extract_product_data built from ex_page
    proxy_urls,       \* AmazonCrawler.proxy_urls
    proxy_url,        \* the string random.choice picked in _get_random_proxy
    proxy_config,     \* what _get_random_proxy returned
    proxy_calls,      \* calls of _get_random_proxy made so far
    context_proxy,    \* proxy= argument of browser.new_context
    max_retries,      \* AmazonCrawler.max_retries
    shutdown_repeated \* initiate_shutdown was called with the flag already true

\* Everything but the record of repeated calls of initiate_shutdown.
crawlerVars == << pc, is_shutting_down, page_state, page_num, product_urls, idx,
           products_data, page_title, product_data, sg_ctx, sg_tries, sg_delay, sg_exc,
           sg_hist, sg_pre, sg_extra, sg_sleeps, sg_backoffs, sg_entry_flag,
           sg_result, nav_after_flag, flush_log, main_exc, visited_ok, last_cat,
           last_visit, page_closes, use_after_close, ex_page, ex_rec,
           proxy_urls, proxy_url, proxy_config, proxy_calls, context_proxy,
           max_retries >>

vars == << crawlerVars, shutdown_repeated >>

sgVars == << sg_ctx, sg_tries, sg_delay, sg_exc, sg_hist, sg_pre, sg_extra,
             sg_sleeps, sg_backoffs, sg_entry_flag, sg_result >>

\* State of the crawler that the steps of the crawl after _create_page
\* leave as it is: the page handed to one extraction, the proxy pool, the
\* proxy that _create_page picked and gave to its context, the max_retries
\* setting.
auxVars == << ex_page, ex_rec, proxy_urls, proxy_url, proxy_config,
              proxy_calls, context_proxy, max_retries >>

crawlVars == << page_state, page_num, product_urls, idx, products_data,
                page_title, product_data >>

\* ------------------------------------------------------------ environment
\* What one page.goto can be answered with.  timeout: goto raises
\* PlaywrightTimeoutError; response: goto returned a response object;
\* status: response.status; captcha: the validateCaptcha form is on the
\* page; robot: the title contains "robot check"; scroll_ok: every action of
\* scroll_randomly succeeds.
Answer(t, r, s, c, b, k) ==
    [timeout |-> t, response |-> r, status |-> s, captcha |-> c,
     robot |-> b, scroll_ok |-> k]

Answers ==
    { Answer(TRUE, FALSE, 0, FALSE, FALSE, TRUE),
      Answer(FALSE, FALSE, 0, FALSE, FALSE, TRUE),
      Answer(FALSE, TRUE, 429, FALSE, FALSE, TRUE),
      Answer(FALSE, TRUE, 429, TRUE, FALSE, TRUE),
      Answer(FALSE, TRUE, 503, FALSE, FALSE, TRUE),
      Answer(FALSE, TRUE, 200, TRUE, FALSE, TRUE),
      Answer(FALSE, TRUE, 200, TRUE, TRUE, TRUE),
      Answer(FALSE, TRUE, 200, FALSE, TRUE, TRUE),
      Answer(FALSE, TRUE, 200, FALSE, FALSE, TRUE),
      Answer(FALSE, TRUE, 200, FALSE, FALSE, FALSE) }

\* Every answer: a navigation timeout, no response, or a response with any
\* status and any combination of CAPTCHA form, robot-check title and scroll
\* failure.
Statuses == {200, 404, 429, 500, 503}

AllAnswers ==
    { Answer(TRUE, FALSE, 0, FALSE, FALSE, TRUE),
      Answer(FALSE, FALSE, 0, FALSE, FALSE, TRUE) } \cup
    { Answer(FALSE, TRUE, s, c, b, k) :
        s \in Statuses, c \in BOOLEAN, b \in BOOLEAN, k \in BOOLEAN }

\* An href read from a product link: a value, or None.
LinkKinds == {"href", "none"}

LinkLists == UNION { [1..n -> LinkKinds] : n \in 0..MaxLinks }

\* The record of the product at link i of category page p.
\* url is page.url, timestamp is datetime.now().isoformat().
Record(p, i) ==
    [page |-> p, link |-> i, url |-> << p, i >>, timestamp |-> "isoformat"]

\* {}: no field at all.
NoRecord == [page |-> 0, link |-> 0, url |-> << >>, timestamp |-> ""]

\* ---------------------------------------------------------------- _safe_get
\* Mutant: the CAPTCHA form is looked for before the status is tested.
Classify_CaptchaFirst(a) ==
    IF a.timeout THEN "Timeout"
    ELSE IF ~a.response THEN "TransportError"
    ELSE IF a.captcha THEN "CaptchaChallenge"
    ELSE IF a.status = 503 \/ a.status = 429 THEN "RateLimited"
    ELSE IF a.robot THEN "RobotCheck"
    ELSE "Success"

\* The outcome of one navigation, in the order of the checks of _safe_get.
Classify(a) ==
    IF a.timeout THEN "Timeout"
    ELSE IF ~a.response THEN "TransportError"
    ELSE IF a.status = 503 \/ a.status = 429 THEN "RateLimited"
    ELSE IF a.captcha THEN "CaptchaChallenge"
    ELSE IF a.robot THEN "RobotCheck"
    ELSE "Success"

\* Mutant: the body of _safe_get raises inside the retry loop, as the body
\* of a plain `def` would.
RetryLoopSeesRaise_Sync == TRUE

\* Whether the loop of the retry decorator is the one that receives an
\* exception raised by the body of _safe_get.  _safe_get is `async def`: the
\* call f() made by the loop only builds the coroutine object and returns
\* it, so the loop ends at its first `return f()`; the body runs later,
\* under the caller's await, outside the loop's try.
RetryLoopSeesRaise == FALSE

\* The state after AmazonCrawler(...) in main(), common to every
\* specification, but for the position and the inputs of auxVars.
InitCrawler ==
    /\ is_shutting_down = FALSE
    /\ page_state = "none"
    /\ page_num = 0
    /\ product_urls = << >>
    /\ idx = 0
    /\ products_data = << >>
    /\ page_title = "none"
    /\ product_data = NoRecord
    /\ sg_ctx = "none"
    /\ sg_tries = tries
    /\ sg_delay = delay
    /\ sg_exc = "none"
    /\ sg_hist = << >>
    /\ sg_pre = 0
    /\ sg_extra = 0
    /\ sg_sleeps = << >>
    /\ sg_backoffs = << >>
    /\ sg_entry_flag = FALSE
    /\ sg_result = "none"
    /\ nav_after_flag = FALSE
    /\ flush_log = << >>
    /\ main_exc = "none"
    /\ visited_ok = << >>
    /\ last_cat = 0
    /\ last_visit = << 0, 0 >>
    /\ page_closes = 0
    /\ use_after_close = FALSE
    /\ shutdown_repeated = FALSE

\* ----------------------------------------------- extract_product_data, fields
\* Largest number of rows the environment puts in the details table.
MaxRows == 2

\* len(price_selectors)
NumPriceSelectors == 7

\* What one price selector finds.  absent: wait_for_selector (or the
\* inner_text after it) raises; empty: the element is there and its
\* inner_text is ""; text: the element is there with a non-empty text.
PriceKinds == {"absent", "empty", "text"}

\* A text is the sequence of its characters.  The th cell of a row reads
\* one of ThTexts: two of them differ only by the blanks around the label.
ThTexts == { << "A" >>, << " ", "A", " " >>, << "B" >> }

\* The td cell of a row reads one of TdTexts.
TdTexts == { << "1" >>, << "2", " " >> }

\* One tr of the table: read is FALSE when the inner_text of its th or of
\* its td raises, otherwise th and td are the two texts.
DetailRows ==
    { [read |-> FALSE, th |-> << >>, td |-> << >>] } \cup
    [read : {TRUE}, th : ThTexts, td : TdTexts]

\* What the table locator finds: .all() raises, or the list of the rows.
DetailTables ==
    { [ok |-> FALSE, rows |-> << >>] } \cup
    { [ok |-> TRUE, rows |-> r] :
        r \in UNION { [1..n -> DetailRows] : n \in 0..MaxRows } }

\* A product page as the selectors of extract_product_data see it.
\* features: "fail" the locator raises, "item_err" the inner_text of one
\* item raises, "items" every item is read.
Pages ==
    [title : {"text"}, price : [1..NumPriceSelectors -> PriceKinds],
     rating : {"fail", "val"}, reviews_count : {"fail", "val"},
     features : {"fail", "item_err", "items"}, details : DetailTables]

\* The page on which wait_for_selector('span#productTitle') times out.
NoTitlePage ==
    [title |-> "absent", price |-> [k \in 1..NumPriceSelectors |-> "absent"],
     rating |-> "fail", reviews_count |-> "fail", features |-> "fail",
     details |-> [ok |-> FALSE, rows |-> << >>]]

\* price = None
NoPrice == -1

\* price_element.inner_text() of selector k: the text of candidate k is
\* written k, the empty string 0.
InnerText(cands, k) == IF cands[k] = "text" THEN k ELSE 0

\* for selector in price_selectors: the first selector whose element is
\* found gives the price and ends the loop; a raise moves to the next.
RECURSIVE PriceFrom(_, _)
PriceFrom(cands, k) ==
    IF k > NumPriceSelectors THEN NoPrice
    ELSE IF cands[k] = "absent" THEN PriceFrom(cands, k + 1)
    ELSE InnerText(cands, k)

\* try: rating = ...get_attribute('title') except: rating = None
ReadRating(pg) == IF pg.rating = "val" THEN "val" ELSE "None"

\* try: reviews_count = ...inner_text() except: reviews_count = None
ReadReviews(pg) == IF pg.reviews_count = "val" THEN "val" ELSE "None"

\* try: features_text = [inner_text of every li] except: features_text = []
ReadFeatures(pg) == IF pg.features = "items" THEN << "li1", "li2" >> ELSE << >>

\* str.lstrip() and str.rstrip(), for the blank.
RECURSIVE LStrip(_)
LStrip(s) ==
    IF s # << >> /\ Head(s) = " " THEN LStrip(Tail(s)) ELSE s

RECURSIVE RStrip(_)
RStrip(s) ==
    IF s # << >> /\ s[Len(s)] = " " THEN RStrip(SubSeq(s, 1, Len(s) - 1))
    ELSE s

\* str.strip()
Strip(s) == RStrip(LStrip(s))

\* A dict is the set of its << key, value >> pairs, one pair for a key.
\* d[k] = v: the value stored under k before, if any, is replaced.
DictStore(d, k, v) == { e \in d : e[1] # k } \cup { << k, v >> }

\* for row in details_table, from row i on, with details = d so far: a row
\* whose th and td are read is stored under its stripped label, a row that
\* raises is skipped (except: continue).
RECURSIVE DetailsFrom(_, _, _)
DetailsFrom(rows, i, d) ==
    IF i > Len(rows) THEN d
    ELSE IF ~rows[i].read THEN DetailsFrom(rows, i + 1, d)
    ELSE DetailsFrom(rows, i + 1,
                     DictStore(d, Strip(rows[i].th), Strip(rows[i].td)))

\* Mutant: no try around the reads of one row, so that the first row that
\* raises ends the loop over the table (only the rows before it are stored).
ReadDetails_AbortOnRow(pg) ==
    IF ~pg.details.ok THEN {}
    ELSE LET rows == pg.details.rows
             n == Cardinality({ i \in DOMAIN rows :
                                  \A j \in 1..i : rows[j].read })
         IN  DetailsFrom(SubSeq(rows, 1, n), 1, {})

\* details = {} and the loop over the table; a table that cannot be listed
\* leaves details {}.
ReadDetails(pg) ==
    IF ~pg.details.ok THEN {}
    ELSE DetailsFrom(pg.details.rows, 1, {})

\* return {} of the outer except.
EmptyRec ==
    [title |-> "", price |-> NoPrice, rating |-> "None",
     reviews_count |-> "None", features |-> << >>, details |-> {},
     url |-> "", timestamp |-> ""]

\* The try block of extract_product_data on page pg.
ExtractRecord(pg) ==
    IF pg.title = "absent" THEN EmptyRec
    ELSE [title |-> pg.title, price |-> PriceFrom(pg.price, 1),
          rating |-> ReadRating(pg), reviews_count |-> ReadReviews(pg),
          features |-> ReadFeatures(pg), details |-> ReadDetails(pg),
          url |-> "page.url", timestamp |-> "isoformat"]

\* -------------------------------------------------------- _get_random_proxy
\* Largest number of entries of a proxy pool, and largest number of
\* characters of all its entries together.
MaxPool == 2
MaxPoolChars == 7

\* A connection string is a sequence of characters: the two separators and
\* one ordinary character.
Chars == {"a", "@", ":"}

\* The pool of n entries cut out of the characters flat at the positions
\* cuts (cuts[i] is where entry i ends; entry n ends where flat ends).
PoolFrom(flat, cuts, n) ==
    [i \in 1..n |->
        SubSeq(flat, (IF i = 1 THEN 0 ELSE cuts[i - 1]) + 1,
                     IF i = n THEN Len(flat) ELSE cuts[i])]

\* Ends of the first n - 1 entries of a pool of n entries and len characters.
CutsOf(n, len) ==
    { c \in [1..(n - 1) -> 0..len] :
        \A i \in 1..(n - 2) : c[i] <= c[i + 1] }

\* "user:pass@host:port" spelled with the characters above.
WellFormedUrl(user) ==
    user \o << ":", "a", "@", "a", ":", "a" >>

\* proxy_urls of main(): five entries that differ in the user name.
MainProxyUrls ==
    << WellFormedUrl(<< "a" >>),
       WellFormedUrl(<< "a", "a" >>),
       WellFormedUrl(<< "a", "a", "a" >>),
       WellFormedUrl(<< "a", "a", "a", "a" >>),
       WellFormedUrl(<< "a", "a", "a", "a", "a" >>) >>

\* str.split(sep): the pieces of s between the occurrences of sep.
RECURSIVE Split(_, _)
Split(s, sep) ==
    IF \A i \in DOMAIN s : s[i] # sep THEN << s >>
    ELSE LET i == CHOOSE j \in DOMAIN s :
                      /\ s[j] = sep
                      /\ \A k \in 1..(j - 1) : s[k] # sep
         IN  << SubSeq(s, 1, i - 1) >> \o Split(SubSeq(s, i + 1, Len(s)), sep)

\* return None
NoProxy == [server |-> << >>, username |-> << >>, password |-> << >>]

\* Mutant: split(':', 1)-like reading of auth that takes the first two
\* pieces and drops the rest.
ParseProxy_FirstTwo(s) ==
    LET parts == Split(s, "@") IN
    IF Len(parts) # 2 THEN NoProxy
    ELSE LET auth == Split(parts[1], ":")
             host_port == Split(parts[2], ":")
         IN  IF Len(auth) < 2 \/ Len(host_port) # 2 THEN NoProxy
             ELSE [server |-> << "http://" >> \o host_port[1] \o << ":" >>
                                 \o host_port[2],
                   username |-> auth[1], password |-> auth[2]]

\* The try block of _get_random_proxy: each of the three unpackings needs
\* exactly two pieces, otherwise ValueError is raised, caught, and None is
\* returned.
ParseProxy(s) ==
    LET parts == Split(s, "@") IN
    IF Len(parts) # 2 THEN NoProxy
    ELSE LET auth == Split(parts[1], ":")
             host_port == Split(parts[2], ":")
         IN  IF Len(auth) # 2 \/ Len(host_port) # 2 THEN NoProxy
             ELSE [server |-> << "http://" >> \o host_port[1] \o << ":" >>
                                 \o host_port[2],
                   username |-> auth[1], password |-> auth[2]]

\* --------------------------------------------------------------------- Init
\* AmazonCrawler.__init__(max_retries = 3) as main() calls it.
DefaultMaxRetries == 3

\* main(): crawler = AmazonCrawler(delay_range=(8, 15), proxy_urls=proxy_urls)
Init ==
    /\ pc = "main"
    /\ InitCrawler
    /\ ex_page = NoTitlePage
    /\ ex_rec = EmptyRec
    /\ proxy_urls = MainProxyUrls
    /\ proxy_url = << >>
    /\ proxy_config = NoProxy
    /\ proxy_calls = 0
    /\ context_proxy = NoProxy
    /\ max_retries = DefaultMaxRetries

\* Mutant: the handler flips the flag.
initiate_shutdown_Toggle ==
    /\ is_shutting_down' = ~is_shutting_down
    /\ shutdown_repeated' = (shutdown_repeated \/ is_shutting_down)
    /\ UNCHANGED << pc, crawlVars, sgVars, nav_after_flag, flush_log,
                    main_exc, visited_ok >>
    /\ UNCHANGED auxVars
    /\ UNCHANGED << last_cat, last_visit >>
    /\ UNCHANGED << page_closes, use_after_close >>

\* handle_shutdown -> initiate_shutdown: the handler stays registered, a
\* signal can arrive at any point, before, during and after the run of
\* main, and any number of times.
initiate_shutdown ==
    /\ is_shutting_down' = TRUE
    /\ shutdown_repeated' = (shutdown_repeated \/ is_shutting_down)
    /\ UNCHANGED << pc, crawlVars, sgVars, nav_after_flag, flush_log,
                    main_exc >>
    /\ UNCHANGED << visited_ok >>
    /\ UNCHANGED auxVars
    /\ UNCHANGED << last_cat, last_visit >>
    /\ UNCHANGED << page_closes, use_after_close >>

\* The call of the decorated _safe_get: the retry loop starts with
\* _tries, _delay = tries, delay.
CallSafeGet(ctx) ==
    /\ sg_ctx' = ctx
    /\ sg_tries' = tries
    /\ sg_delay' = delay
    /\ sg_exc' = "none"
    /\ sg_hist' = << >>
    /\ sg_pre' = 0
    /\ sg_extra' = 0
    /\ sg_sleeps' = << >>
    /\ sg_backoffs' = << >>
    /\ sg_result' = "running"
    /\ sg_entry_flag' = FALSE
    /\ pc' = "sg_check"

\* if self.is_shutting_down: raise GracefulExit
SafeGetCheck ==
    /\ pc = "sg_check"
    /\ sg_entry_flag' = is_shutting_down
    /\ IF is_shutting_down
       THEN /\ sg_exc' = "GracefulExit"
            /\ pc' = "sg_raise"
       ELSE /\ sg_exc' = sg_exc
            /\ pc' = "sg_delay"
    /\ UNCHANGED << is_shutting_down, crawlVars, sg_ctx, sg_tries, sg_delay,
                    sg_hist, sg_pre, sg_extra, sg_backoffs, sg_result,
                    nav_after_flag, flush_log, main_exc >>
    /\ UNCHANGED << visited_ok >>
    /\ UNCHANGED auxVars
    /\ UNCHANGED << sg_sleeps >>
    /\ UNCHANGED << last_cat, last_visit >>
    /\ UNCHANGED << page_closes, use_after_close >>
    /\ UNCHANGED << shutdown_repeated >>

\* await asyncio.sleep(random.uniform(*self.delay_range))
SafeGetDelay ==
    /\ pc = "sg_delay"
    /\ sg_pre' = sg_pre + 1
    /\ pc' = "sg_goto"
    /\ UNCHANGED << is_shutting_down, crawlVars, sg_ctx, sg_tries, sg_delay,
                    sg_exc, sg_hist, sg_extra, sg_backoffs, sg_entry_flag,
                    sg_result, nav_after_flag, flush_log, main_exc >>
    /\ UNCHANGED << visited_ok >>
    /\ UNCHANGED auxVars
    /\ UNCHANGED << sg_sleeps >>
    /\ UNCHANGED << last_cat, last_visit >>
    /\ UNCHANGED << page_closes, use_after_close >>
    /\ UNCHANGED << shutdown_repeated >>

\* response = await page.goto(...), then the checks on the response up to
\* the first sleep, raise or scroll.
Goto(S) ==
    /\ pc = "sg_goto"
    /\ \E a \in S :
        /\ sg_hist' = Append(sg_hist, a)
        /\ nav_after_flag' = (nav_after_flag \/ is_shutting_down)
        /\ CASE Classify(a) = "Timeout" ->
                  /\ sg_exc' = "PlaywrightTimeoutError"
                  /\ pc' = "sg_raise"
             [] Classify(a) = "TransportError" ->
                  /\ sg_exc' = "Exception"
                  /\ pc' = "sg_raise"
             [] Classify(a) \in {"RateLimited", "CaptchaChallenge",
                                 "RobotCheck"} ->
                  /\ sg_exc' = "Exception"
                  /\ pc' = "sg_block_sleep"
             [] OTHER ->
                  /\ sg_exc' = sg_exc
                  /\ pc' = "sg_scroll"
    /\ UNCHANGED << is_shutting_down, crawlVars, sg_ctx, sg_tries, sg_delay,
                    sg_pre, sg_extra, sg_backoffs, sg_entry_flag, sg_result,
                    flush_log, main_exc >>
    /\ UNCHANGED << visited_ok >>
    /\ UNCHANGED auxVars
    /\ UNCHANGED << sg_sleeps >>
    /\ UNCHANGED << last_cat, last_visit >>
    /\ UNCHANGED << page_closes >>
    /\ use_after_close' = (use_after_close \/ page_state = "closed")
    /\ UNCHANGED << shutdown_repeated >>

\* The navigation of the run of main(), answered from Answers.
SafeGetGoto == Goto(Answers)

\* Mutant: every block sleeps the same range.
ExtraSleep_Same(outcome) == << 30, 45 >>

\* The range of the sleep that precedes the raise of a block outcome:
\* random.uniform(20, 30) after a 429/503, random.uniform(30, 45) after a
\* CAPTCHA form or a robot-check title.
ExtraSleep(outcome) ==
    IF outcome = "RateLimited" THEN << 20, 30 >> ELSE << 30, 45 >>

\* await asyncio.sleep(random.uniform(20, 30)) / (30, 45), then raise
SafeGetBlockSleep ==
    /\ pc = "sg_block_sleep"
    /\ sg_extra' = sg_extra + 1
    /\ sg_sleeps' = Append(sg_sleeps,
                           ExtraSleep(Classify(sg_hist[Len(sg_hist)])))
    /\ pc' = "sg_raise"
    /\ UNCHANGED << is_shutting_down, crawlVars, sg_ctx, sg_tries, sg_delay,
                    sg_exc, sg_hist, sg_pre, sg_backoffs, sg_entry_flag,
                    sg_result, nav_after_flag, flush_log, main_exc >>
    /\ UNCHANGED << visited_ok >>
    /\ UNCHANGED auxVars
    /\ UNCHANGED << last_cat, last_visit >>
    /\ UNCHANGED << page_closes, use_after_close >>
    /\ UNCHANGED << shutdown_repeated >>

\* await scroll_randomly(); return await page.content().  An action of the
\* scroll sequence that raises is caught by `except Exception` of
\* _safe_get, logged and raised again.
SafeGetScroll ==
    /\ pc = "sg_scroll"
    /\ IF sg_hist[Len(sg_hist)].scroll_ok
       THEN /\ sg_result' = "returned"
            /\ sg_exc' = sg_exc
            /\ pc' = IF sg_ctx = "cat" THEN "grid" ELSE "extract_check"
       ELSE /\ sg_result' = sg_result
            /\ sg_exc' = "Exception"
            /\ pc' = "sg_raise"
    /\ UNCHANGED << is_shutting_down, crawlVars, sg_ctx, sg_tries, sg_delay,
                    sg_hist, sg_pre, sg_extra, sg_backoffs, sg_entry_flag,
                    nav_after_flag, flush_log, main_exc >>
    /\ UNCHANGED << visited_ok >>
    /\ UNCHANGED auxVars
    /\ UNCHANGED << sg_sleeps >>
    /\ UNCHANGED << last_cat, last_visit >>
    /\ UNCHANGED << page_closes >>
    /\ use_after_close' = (use_after_close \/ page_state = "closed")
    /\ UNCHANGED << shutdown_repeated >>

\* Mutant: the page clause catches everything but the navigation timeout.
PageExceptCatches_NotTimeout(exc) == exc \in {"GracefulExit", "Exception"}

\* Which except clause of crawl_category receives exception exc raised
\* while the product loop (ctx "prod") or the category page (ctx "cat") is
\* being processed.  Both inner clauses are `except Exception`, and
\* GracefulExit and PlaywrightTimeoutError derive from Exception.
ProductExceptCatches(exc) ==
    exc \in {"GracefulExit", "PlaywrightTimeoutError", "Exception"}

PageExceptCatches(exc) ==
    exc \in {"GracefulExit", "PlaywrightTimeoutError", "Exception"}

Handler(ctx, exc) ==
    IF ctx = "prod" /\ ProductExceptCatches(exc) THEN "product"
    ELSE IF PageExceptCatches(exc) THEN "page"
    ELSE "outer"

\* Mutant: the product clause goes back to the link that failed.
Propagate_RetrySameLink(ctx, exc) ==
    CASE Handler(ctx, exc) = "product" ->
            /\ idx' = idx
            /\ page_num' = page_num
            /\ pc' = "prod_loop"
      [] Handler(ctx, exc) = "page" ->
            /\ page_num' = page_num + 1
            /\ idx' = idx
            /\ pc' = "page_loop"
      [] OTHER ->
            /\ UNCHANGED << page_num, idx >>
            /\ pc' = "page_close"

\* The effect of an exception raised inside the loops of crawl_category:
\* the product clause logs and continues with the next link, the page
\* clause logs and continues with the next page number, the outer clause
\* logs and leaves the loops.
Propagate(ctx, exc) ==
    CASE Handler(ctx, exc) = "product" ->
            /\ idx' = idx + 1
            /\ page_num' = page_num
            /\ pc' = "prod_loop"
      [] Handler(ctx, exc) = "page" ->
            /\ page_num' = page_num + 1
            /\ idx' = idx
            /\ pc' = "page_loop"
      [] OTHER ->
            /\ UNCHANGED << page_num, idx >>
            /\ pc' = "page_close"

\* An exception leaves the body of _safe_get.  Were it raised inside the
\* retry loop, the loop would count the try, sleep _delay and call again
\* while tries remain; otherwise it reaches the except clause of the loop
\* of crawl_category that made the call.
SafeGetRaise ==
    /\ pc = "sg_raise"
    /\ IF RetryLoopSeesRaise /\ sg_tries - 1 > 0
       THEN /\ sg_tries' = sg_tries - 1
            /\ sg_backoffs' = Append(sg_backoffs, sg_delay)
            /\ sg_delay' = sg_delay * backoff
            /\ sg_exc' = "none"
            /\ pc' = "sg_check"
            /\ UNCHANGED << sg_result, page_num, idx >>
       ELSE /\ sg_result' = "raised"
            /\ Propagate(sg_ctx, sg_exc)
            /\ UNCHANGED << sg_tries, sg_backoffs, sg_delay, sg_exc >>
    /\ UNCHANGED << is_shutting_down, page_state, product_urls,
                    products_data, page_title, product_data, sg_ctx, sg_hist, sg_pre,
                    sg_extra, sg_entry_flag, nav_after_flag, flush_log,
                    main_exc >>
    /\ UNCHANGED << visited_ok >>
    /\ UNCHANGED auxVars
    /\ UNCHANGED << sg_sleeps >>
    /\ UNCHANGED << last_cat, last_visit >>
    /\ UNCHANGED << page_closes, use_after_close >>
    /\ UNCHANGED << shutdown_repeated >>

\* ------------------------------------------------------------- _save_data
\* One call of _save_data(data, filename): the write succeeds or fails; a
\* failure is logged inside _save_data and nothing is raised.
SaveCall(kind, data, ok) == [kind |-> kind, data |-> data, ok |-> ok]

\* Whether _save_data raises to its caller when the write fails: the whole
\* body is inside try / except Exception, which only logs.
SaveDataRaises(ok) == FALSE

\* Mutant: a failed write empties the list it was given.
BufferAfterSave_ClearOnFailure(buf, ok) == IF ok THEN buf ELSE << >>

\* The caller's buffer after _save_data(buf, ...) returned: _save_data only
\* reads the list it is given.
BufferAfterSave(buf, ok) == buf

\* --------------------------------------------------- extract_product_data
\* Mutant: the record is built whether or not the title appeared.
extract_product_data_NoTitleCheck(title, p, i) == Record(p, i)

\* The dict extract_product_data returns for the product at link i of page
\* p: the record when span#productTitle appears, {} otherwise.
extract_product_data(title, p, i) ==
    IF title THEN Record(p, i) ELSE NoRecord

\* Mutant: the emptiness test is dropped.
Truthy_Always(d) == TRUE

\* `if product_data:` -- an empty dict is false.
Truthy(d) == d # NoRecord

\* if self.is_shutting_down: raise GracefulExit  (extract_product_data)
ExtractCheck ==
    /\ pc = "extract_check"
    /\ IF is_shutting_down
       THEN Propagate("prod", "GracefulExit")
       ELSE /\ pc' = "extract"
            /\ UNCHANGED << page_num, idx >>
    /\ UNCHANGED << is_shutting_down, page_state, product_urls,
                    products_data, page_title, product_data, sgVars, nav_after_flag,
                    flush_log, main_exc >>
    /\ UNCHANGED << visited_ok >>
    /\ UNCHANGED auxVars
    /\ UNCHANGED << last_cat, last_visit >>
    /\ UNCHANGED << page_closes, use_after_close >>
    /\ UNCHANGED << shutdown_repeated >>

\* The try block of extract_product_data: wait for the title, read the
\* fields, build the record; any exception gives {}.
ExtractData ==
    /\ pc = "extract"
    /\ \E title \in BOOLEAN :
          /\ page_title' = IF title THEN "present" ELSE "missing"
          /\ visited_ok' = IF title
                           THEN Append(visited_ok, << page_num, idx >>)
                           ELSE visited_ok
          /\ product_data' = extract_product_data(title, page_num, idx)
    /\ pc' = "append"
    /\ UNCHANGED << is_shutting_down, page_state, page_num, product_urls,
                    idx, products_data, sgVars, nav_after_flag, flush_log,
                    main_exc >>
    /\ UNCHANGED auxVars
    /\ UNCHANGED << last_cat, last_visit >>
    /\ UNCHANGED << page_closes >>
    /\ use_after_close' = (use_after_close \/ page_state = "closed")
    /\ UNCHANGED << shutdown_repeated >>

\* --------------------------------------------------------- crawl_category
\* if self.is_shutting_down: raise GracefulExit -- caught by main.
CrawlCategoryCheck ==
    /\ pc = "main"
    /\ IF is_shutting_down
       THEN /\ main_exc' = "GracefulExit"
            /\ pc' = "main_close"
       ELSE /\ main_exc' = main_exc
            /\ pc' = "create_page"
    /\ UNCHANGED << is_shutting_down, crawlVars, sgVars, nav_after_flag,
                    flush_log >>
    /\ UNCHANGED << visited_ok >>
    /\ UNCHANGED auxVars
    /\ UNCHANGED << last_cat, last_visit >>
    /\ UNCHANGED << page_closes, use_after_close >>
    /\ UNCHANGED << shutdown_repeated >>

\* proxy_config = self._get_random_proxy(): None for an empty pool, else
\* the parse of the entry random.choice picked.
PickProxy ==
    /\ IF proxy_urls = << >>
       THEN /\ proxy_config' = NoProxy
            /\ proxy_url' = proxy_url
       ELSE \E i \in DOMAIN proxy_urls :
               /\ proxy_url' = proxy_urls[i]
               /\ proxy_config' = ParseProxy(proxy_urls[i])
    /\ proxy_calls' = proxy_calls + 1

\* How far the try block of _create_page gets: new_context raises;
\* new_context returns and set_extra_http_headers or new_page raises;
\* the page is made and stored in self.current_page and _setup_page raises;
\* everything succeeds.
CreateOutcomes == {"fail_context", "fail_page", "fail_setup", "ok"}

\* browser.new_context(proxy=cfg if cfg else None, ...),
\* set_extra_http_headers, new_page, self.current_page = page, _setup_page;
\* back in crawl_category, products_data = [] and the page loop starts.
\* A call that raises is logged and raised again by _create_page, and
\* crawl_category raises it to main; what was done before it stays done.
MakePage(cfg) ==
    \E o \in CreateOutcomes :
       /\ context_proxy' = IF o = "fail_context" THEN context_proxy ELSE cfg
       /\ page_state' = IF o \in {"fail_setup", "ok"} THEN "open"
                                                      ELSE page_state
       /\ IF o = "ok"
          THEN /\ page_num' = 1
               /\ main_exc' = main_exc
               /\ pc' = "page_loop"
          ELSE /\ page_num' = page_num
               /\ main_exc' = "Exception"
               /\ pc' = "main_close"

\* page = await self._create_page(); products_data = [].  init_browser
\* that raises (logged, raised again) leaves _create_page and
\* crawl_category before any proxy is picked; otherwise a proxy is picked
\* and the context and the page are made with it.
CreatePage ==
    /\ pc = "create_page"
    /\ \E launched \in BOOLEAN :
          IF launched
          THEN /\ PickProxy
               /\ MakePage(proxy_config')
          ELSE /\ main_exc' = "Exception"
               /\ pc' = "main_close"
               /\ UNCHANGED << page_state, page_num, proxy_url, proxy_config,
                               proxy_calls, context_proxy >>
    /\ UNCHANGED << is_shutting_down, product_urls, idx, products_data,
                    page_title, product_data, sgVars, nav_after_flag, flush_log >>
    /\ UNCHANGED << visited_ok >>
    /\ UNCHANGED << ex_page, ex_rec, proxy_urls, max_retries >>
    /\ UNCHANGED << last_cat, last_visit >>
    /\ UNCHANGED << page_closes, use_after_close >>
    /\ UNCHANGED << shutdown_repeated >>

\* for page_num in range(1, max_pages + 1): the shutdown check, then the
\* call of _safe_get for the category page.
PageLoop ==
    /\ pc = "page_loop"
    /\ IF page_num > max_pages \/ is_shutting_down
       THEN /\ pc' = "page_close"
            /\ UNCHANGED << sgVars, last_cat >>
       ELSE /\ CallSafeGet("cat")
            /\ last_cat' = page_num
    /\ UNCHANGED << is_shutting_down, crawlVars, nav_after_flag, flush_log,
                    main_exc >>
    /\ UNCHANGED << visited_ok >>
    /\ UNCHANGED auxVars
    /\ UNCHANGED << last_visit >>
    /\ UNCHANGED << page_closes, use_after_close >>
    /\ UNCHANGED << shutdown_repeated >>

\* wait_for_selector('div.s-main-slot') and the collection of the hrefs;
\* either can raise, which the page clause catches.
Grid ==
    /\ pc = "grid"
    /\ \/ /\ Propagate("cat", "PlaywrightTimeoutError")
          /\ UNCHANGED product_urls
       \/ /\ Propagate("cat", "Exception")
          /\ UNCHANGED product_urls
       \/ \E links \in LinkLists :
            /\ product_urls' = links
            /\ idx' = 1
            /\ page_num' = page_num
            /\ pc' = "prod_loop"
    /\ UNCHANGED << is_shutting_down, page_state, products_data,
                    page_title, product_data, sgVars, nav_after_flag, flush_log,
                    main_exc >>
    /\ UNCHANGED << visited_ok >>
    /\ UNCHANGED auxVars
    /\ UNCHANGED << last_cat, last_visit >>
    /\ UNCHANGED << page_closes >>
    /\ use_after_close' = (use_after_close \/ page_state = "closed")
    /\ UNCHANGED << shutdown_repeated >>

\* for product_url in product_urls: the shutdown check, the None check and
\* the call of _safe_get for the product.  When the loop ends or breaks,
\* the page loop goes on to its next number.
ProductLoop ==
    /\ pc = "prod_loop"
    /\ IF idx > Len(product_urls) \/ is_shutting_down
       THEN /\ page_num' = page_num + 1
            /\ idx' = idx
            /\ pc' = "page_loop"
            /\ UNCHANGED << sgVars, last_visit >>
       ELSE IF product_urls[idx] = "none"
       THEN /\ idx' = idx + 1
            /\ page_num' = page_num
            /\ pc' = "prod_loop"
            /\ UNCHANGED << sgVars, last_visit >>
       ELSE /\ CallSafeGet("prod")
            /\ last_visit' = << page_num, idx >>
            /\ UNCHANGED << page_num, idx >>
    /\ UNCHANGED << is_shutting_down, page_state, product_urls,
                    products_data, page_title, product_data, nav_after_flag, flush_log,
                    main_exc >>
    /\ UNCHANGED << visited_ok >>
    /\ UNCHANGED auxVars
    /\ UNCHANGED << last_cat >>
    /\ UNCHANGED << page_closes, use_after_close >>
    /\ UNCHANGED << shutdown_repeated >>

\* if product_data: products_data.append(product_data)
\* if len(products_data) % 5 == 0: self._save_data(products_data, ...)
\* then the occasional longer sleep, and the next link.
AppendSave ==
    /\ pc = "append"
    /\ LET buf == IF Truthy(product_data)
                  THEN Append(products_data, product_data)
                  ELSE products_data
       IN IF Len(buf) % SaveEvery = 0
          THEN \E ok \in BOOLEAN :
                 /\ flush_log' = Append(flush_log, SaveCall("batch", buf, ok))
                 /\ products_data' = BufferAfterSave(buf, ok)
                 /\ IF SaveDataRaises(ok)
                    THEN Propagate("prod", "Exception")
                    ELSE /\ idx' = idx + 1
                         /\ page_num' = page_num
                         /\ pc' = "prod_loop"
          ELSE /\ products_data' = buf
               /\ flush_log' = flush_log
               /\ idx' = idx + 1
               /\ page_num' = page_num
               /\ pc' = "prod_loop"
    /\ UNCHANGED << is_shutting_down, page_state, product_urls, page_title,
                    product_data, sgVars, nav_after_flag, main_exc >>
    /\ UNCHANGED << visited_ok >>
    /\ UNCHANGED auxVars
    /\ UNCHANGED << last_cat, last_visit >>
    /\ UNCHANGED << page_closes, use_after_close >>
    /\ UNCHANGED << shutdown_repeated >>

\* Page.close() that returns: the page is closed after it; on a page that
\* is closed already the call does nothing and raises nothing.
ClosePage(st) == "closed"

\* Mutant: crawl_category returns without the page.close() of its finally.
PageClose_NoFinally ==
    /\ pc = "page_close"
    /\ pc' = "main_save"
    /\ UNCHANGED << is_shutting_down, crawlVars, sgVars, nav_after_flag,
                    flush_log, main_exc, visited_ok, last_cat, last_visit,
                    page_closes, use_after_close >>
    /\ UNCHANGED auxVars
    /\ UNCHANGED << shutdown_repeated >>

\* finally: await page.close(); return products_data.  The finally has
\* no except of its own: when page.close() raises, the return is not
\* reached, the exception leaves crawl_category and main takes its
\* `except Exception`, past the final save.
PageClose ==
    /\ pc = "page_close"
    /\ page_closes' = page_closes + 1
    /\ \E ok \in BOOLEAN :
          IF ok
          THEN /\ page_state' = ClosePage(page_state)
               /\ main_exc' = main_exc
               /\ pc' = "main_save"
          ELSE /\ page_state' = page_state
               /\ main_exc' = "Exception"
               /\ pc' = "main_close"
    /\ UNCHANGED << is_shutting_down, page_num, product_urls, idx,
                    products_data, page_title, product_data, sgVars, nav_after_flag,
                    flush_log >>
    /\ UNCHANGED << visited_ok >>
    /\ UNCHANGED auxVars
    /\ UNCHANGED << last_cat, last_visit >>
    /\ UNCHANGED << use_after_close >>
    /\ UNCHANGED << shutdown_repeated >>

\* ------------------------------------------------------------------- main
\* `if products:` -- an empty list is false.
MainShouldSave(products) == products # << >>

\* if products: crawler._save_data(products, "electronics_products_...")
MainSave ==
    /\ pc = "main_save"
    /\ IF MainShouldSave(products_data)
       THEN \E ok \in BOOLEAN :
              /\ flush_log' = Append(flush_log,
                                     SaveCall("final", products_data, ok))
              /\ products_data' = BufferAfterSave(products_data, ok)
              /\ main_exc' = IF SaveDataRaises(ok) THEN "Exception"
                                                   ELSE main_exc
       ELSE UNCHANGED << flush_log, products_data, main_exc >>
    /\ pc' = "main_close"
    /\ UNCHANGED << is_shutting_down, page_state, page_num, product_urls,
                    idx, page_title, product_data, sgVars, nav_after_flag >>
    /\ UNCHANGED << visited_ok >>
    /\ UNCHANGED auxVars
    /\ UNCHANGED << last_cat, last_visit >>
    /\ UNCHANGED << page_closes, use_after_close >>
    /\ UNCHANGED << shutdown_repeated >>

\* finally: await crawler.close() -- if self.current_page:
\* await self.current_page.close(), then the browser; current_page is the
\* page _create_page made, closed or not.  A close of the open page that
\* raises is caught and logged by close(), and the page stays open.
MainClose ==
    /\ pc = "main_close"
    /\ IF page_state # "none"
       THEN /\ \E ok \in BOOLEAN :
                  /\ ok \/ page_state = "open"
                  /\ page_state' = IF ok THEN ClosePage(page_state)
                                         ELSE page_state
            /\ page_closes' = page_closes + 1
       ELSE UNCHANGED << page_state, page_closes >>
    /\ pc' = "done"
    /\ UNCHANGED << is_shutting_down, page_num, product_urls, idx,
                    products_data, page_title, product_data, sgVars,
                    nav_after_flag, flush_log, main_exc >>
    /\ UNCHANGED << visited_ok >>
    /\ UNCHANGED auxVars
    /\ UNCHANGED << last_cat, last_visit >>
    /\ UNCHANGED << use_after_close >>
    /\ UNCHANGED << shutdown_repeated >>

\* The steps of the coroutine of main().
MainNext ==
    \/ CrawlCategoryCheck
    \/ CreatePage
    \/ PageLoop
    \/ SafeGetCheck
    \/ SafeGetDelay
    \/ SafeGetGoto
    \/ SafeGetBlockSleep
    \/ SafeGetScroll
    \/ SafeGetRaise
    \/ Grid
    \/ ProductLoop
    \/ ExtractCheck
    \/ ExtractData
    \/ AppendSave
    \/ PageClose
    \/ MainSave
    \/ MainClose

\* A signal may arrive at any time, or never: the handler runs between two
\* steps of the coroutine.
Next ==
    \/ initiate_shutdown
    \/ MainNext

Spec == Init /\ [][Next]_vars

\* The event loop keeps running the coroutine of main(): every await of
\* the run is bounded (timeouts of goto and wait_for_selector, finite
\* sleeps), so a step of the coroutine that can be taken is eventually
\* taken.  Nothing obliges the environment to send a signal.
FairSpec == Spec /\ WF_vars(MainNext)

\* Everything of the run of main() but its position.
mainVars == << is_shutting_down, crawlVars, sgVars, nav_after_flag,
               flush_log, main_exc, visited_ok, last_cat, last_visit,
               page_closes, use_after_close >>

\* -------------------------------------------- _safe_get on every answer
\* Largest value of the max_retries setting.
MaxRetries == 4

\* A crawler constructed with any max_retries, in crawl_category past its
\* entry check.
InitFetch ==
    /\ pc = "create_page"
    /\ InitCrawler
    /\ ex_page = NoTitlePage
    /\ ex_rec = EmptyRec
    /\ proxy_urls = MainProxyUrls
    /\ proxy_url = << >>
    /\ proxy_config = NoProxy
    /\ proxy_calls = 0
    /\ context_proxy = NoProxy
    /\ max_retries \in 1..MaxRetries

\* The navigation answered from AllAnswers.
SafeGetGotoAny == Goto(AllAnswers)

\* The fetches of the category pages, up to the product grid.
NextFetch ==
    \/ initiate_shutdown
    \/ CreatePage
    \/ PageLoop
    \/ SafeGetCheck
    \/ SafeGetDelay
    \/ SafeGetGotoAny
    \/ SafeGetBlockSleep
    \/ SafeGetScroll
    \/ SafeGetRaise

SpecFetch == InitFetch /\ [][NextFetch]_vars

\* --------------------------------- extract_product_data on every page content
\* One call of extract_product_data, past its shutdown check, on a page
\* whose content is any of Pages or the page without a title.
InitExtract ==
    /\ pc = "extract_fields"
    /\ InitCrawler
    /\ \/ ex_page = NoTitlePage
       \/ ex_page \in Pages
    /\ ex_rec = EmptyRec
    /\ proxy_urls = MainProxyUrls
    /\ proxy_url = << >>
    /\ proxy_config = NoProxy
    /\ proxy_calls = 0
    /\ context_proxy = NoProxy
    /\ max_retries = DefaultMaxRetries

\* The try block of extract_product_data and its outer except.
ExtractFields ==
    /\ pc = "extract_fields"
    /\ ex_rec' = ExtractRecord(ex_page)
    /\ pc' = "extracted"
    /\ UNCHANGED << mainVars, ex_page, proxy_urls, proxy_url, proxy_config,
                    proxy_calls, context_proxy, max_retries >>
    /\ UNCHANGED << shutdown_repeated >>

NextExtract == ExtractFields

SpecExtract == InitExtract /\ [][NextExtract]_vars

\* --------------------------------------------- _create_page on every proxy pool
\* crawl_category past its entry check, about to call _create_page, with
\* any pool of at most MaxPool connection strings that have at most
\* MaxPoolChars characters together.
InitProxy ==
    /\ pc = "get_proxy"
    /\ InitCrawler
    /\ ex_page = NoTitlePage
    /\ ex_rec = EmptyRec
    /\ \E len \in 0..MaxPoolChars, n \in 0..MaxPool :
          /\ n = 0 => len = 0
          /\ \E flat \in [1..len -> Chars], cuts \in CutsOf(n, len) :
                proxy_urls = PoolFrom(flat, cuts, n)
    /\ proxy_url = << >>
    /\ proxy_config = NoProxy
    /\ proxy_calls = 0
    /\ context_proxy = NoProxy
    /\ max_retries = DefaultMaxRetries

\* The head of _create_page: if not self.browser: await init_browser(),
\* which logs and raises again when the launch fails (the exception leaves
\* _create_page and crawl_category before any proxy is picked); then
\* proxy_config = self._get_random_proxy().
GetRandomProxy ==
    /\ pc = "get_proxy"
    /\ \E launched \in BOOLEAN :
          IF launched
          THEN /\ PickProxy
               /\ main_exc' = main_exc
               /\ pc' = "new_context"
          ELSE /\ main_exc' = "Exception"
               /\ pc' = "main_close"
               /\ UNCHANGED << proxy_url, proxy_config, proxy_calls >>
    /\ UNCHANGED << is_shutting_down, crawlVars, sgVars, nav_after_flag,
                    flush_log, visited_ok, last_cat, last_visit, page_closes,
                    use_after_close, ex_page, ex_rec, proxy_urls,
                    context_proxy, max_retries >>
    /\ UNCHANGED << shutdown_repeated >>

\* The rest of _create_page, with the proxy picked before.
NewContext ==
    /\ pc = "new_context"
    /\ MakePage(proxy_config)
    /\ UNCHANGED << is_shutting_down, product_urls, idx, products_data,
                    page_title, product_data, sgVars, nav_after_flag,
                    flush_log, visited_ok, ex_page, ex_rec, proxy_urls,
                    proxy_url, proxy_config, proxy_calls, max_retries >>
    /\ UNCHANGED << last_cat, last_visit >>
    /\ UNCHANGED << page_closes, use_after_close >>
    /\ UNCHANGED << shutdown_repeated >>

\* The session up to the point where the first page.goto starts.
NextProxy ==
    \/ initiate_shutdown
    \/ GetRandomProxy
    \/ NewContext
    \/ PageLoop
    \/ SafeGetCheck
    \/ SafeGetDelay

SpecProxy == InitProxy /\ [][NextProxy]_vars

\* ---------------------------------------------------------------- helpers
Range(f) == { f[i] : i \in DOMAIN f }

IsPrefix(s, t) == Len(s) <= Len(t) /\ \A i \in 1..Len(s) : s[i] = t[i]

\* The _save_data calls made from the product loop / from main.
BatchFlushes == { i \in DOMAIN flush_log : flush_log[i].kind = "batch" }

FinalFlushes == { i \in DOMAIN flush_log : flush_log[i].kind = "final" }

\* How many writes that reached storage hold record r.
Writes(r) ==
    Cardinality({ i \in DOMAIN flush_log :
                    flush_log[i].ok /\ r \in Range(flush_log[i].data) })

\* The _safe_get call in progress, or the last one, has ended.
CallEnded == sg_result \in {"returned", "raised"}

\* A navigation answered by a page that passes every check of _safe_get.
Clean(a) == Classify(a) = "Success" /\ a.scroll_ok

\* ------------------------------------------------------------------ claims
\* C1: no page.goto starts in a state where is_shutting_down is already
\* true, wherever in the run the signal handler set the flag.
C1_NoNavigationAfterShutdown == ~nav_after_flag

\* C2: a _safe_get call whose navigations all time out makes exactly 3
\* navigation attempts before it reports the failure to its caller: never
\* a 4th attempt, never a failure report after fewer than 3.
C2_TimeoutExactlyThreeAttempts ==
    /\ Len(sg_hist) <= tries
    /\ ( /\ sg_result = "raised"
         /\ sg_exc = "PlaywrightTimeoutError"
         /\ \A i \in DOMAIN sg_hist : sg_hist[i].timeout )
       => Len(sg_hist) = tries

\* C3: a product fetch answered with HTTP 429 on its first navigation and
\* with a clean page on its second ends by returning the content to
\* crawl_category, after exactly one rate-limit sleep.  (A call that has
\* ended with a 429 first answer and no second navigation at all is a call
\* that did not take the clean second answer.)
C3_RateLimitedThenSuccess ==
    ( /\ CallEnded
      /\ sg_ctx = "prod"
      /\ sg_exc # "GracefulExit"
      /\ Len(sg_hist) >= 1
      /\ sg_hist[1].response /\ sg_hist[1].status = 429
      /\ Len(sg_hist) >= 2 => Clean(sg_hist[2]) )
    => ( /\ sg_result = "returned"
         /\ Len(sg_hist) = 2
         /\ sg_extra = 1 )

\* C4: a _safe_get entered while is_shutting_down is true sleeps no
\* pre-request delay and starts no navigation, raises GracefulExit from the
\* entry check, and that exception is not retried: no backoff sleep, no
\* further entry, delay or navigation follows; it reaches the caller.
C4_ShutdownFetchNotRetried ==
    [][ /\ (pc = "sg_check" /\ is_shutting_down /\ pc' # pc)
           => ( /\ pc' = "sg_raise"
                /\ sg_exc' = "GracefulExit"
                /\ sg_pre' = sg_pre
                /\ sg_hist' = sg_hist )
        /\ (pc = "sg_raise" /\ sg_exc = "GracefulExit" /\ pc' # pc)
           => ( /\ sg_result' = "raised"
                /\ sg_backoffs' = sg_backoffs
                /\ sg_tries' = sg_tries
                /\ sg_pre' = sg_pre
                /\ sg_hist' = sg_hist
                /\ pc' \notin {"sg_check", "sg_delay", "sg_goto"} ) ]_vars

\* C4 witness: a call entered under shutdown has ended with GracefulExit
\* at its caller, with no delay, navigation or backoff.
C4_Witness ==
    /\ sg_result = "raised"
    /\ sg_entry_flag
    /\ sg_exc = "GracefulExit"
    /\ sg_pre = 0 /\ sg_hist = << >> /\ sg_backoffs = << >>
    /\ pc \in {"prod_loop", "page_loop"}

\* C5: at every point of crawl_category the number of _save_data calls
\* made from the product loop equals floor(n / 5), n the number of records
\* in the buffer: none with 0 or 4 records, none by a visit that appended
\* nothing.
C5_FlushesAreFloorOfFive ==
    Cardinality(BatchFlushes) = Len(products_data) \div SaveEvery

\* C6: in a run that ends normally (and in which no storage write failed),
\* every record of the result buffer is written exactly once, counted over
\* the saves of the product loop and the final save of main together.
C6_EachRecordWrittenOnce ==
    ( /\ pc = "done"
      /\ main_exc = "none"
      /\ \A i \in DOMAIN flush_log : flush_log[i].ok )
    => \A i \in DOMAIN products_data : Writes(products_data[i]) = 1

\* C7, read in favour of the code (a final save is due only when the
\* buffer holds a record that no save has written): when the run has
\* ended, whether crawl_category completed its pages or left them on
\* shutdown, main has attempted the final save exactly once.
C7_FinalFlushExactlyOnce ==
    ( /\ pc = "done"
      /\ \E i \in DOMAIN products_data : Writes(products_data[i]) = 0 )
    => Cardinality(FinalFlushes) = 1

\* C8: a _save_data call whose write fails raises nothing and leaves the
\* buffer as it was given: the crawl goes on with the next product link
\* (main goes on to close), and the records of the failed call are again
\* in the data of the next _save_data call.
C8_FailedFlushKeepsBuffer ==
    /\ [](\A i \in DOMAIN flush_log :
            ~flush_log[i].ok
            => /\ IsPrefix(flush_log[i].data, products_data)
               /\ i < Len(flush_log)
                  => IsPrefix(flush_log[i].data, flush_log[i + 1].data))
    /\ [][ ( /\ Len(flush_log') = Len(flush_log) + 1
             /\ ~flush_log'[Len(flush_log')].ok )
           => ( /\ products_data' = flush_log'[Len(flush_log')].data
                /\ flush_log'[Len(flush_log')].kind = "batch"
                   => ( /\ pc' = "prod_loop"
                        /\ idx' = idx + 1
                        /\ page_num' = page_num )
                /\ flush_log'[Len(flush_log')].kind = "final"
                   => (pc' = "main_close" /\ main_exc' = main_exc) ) ]_vars

\* C8 witness: a save of a non-empty buffer failed, and a later save was
\* given the same records.
C8_Witness ==
    \E i \in DOMAIN flush_log :
        /\ ~flush_log[i].ok
        /\ flush_log[i].data # << >>
        /\ i < Len(flush_log)
        /\ IsPrefix(flush_log[i].data, flush_log[i + 1].data)

\* C9: a failure of one step is caught where it happens.  A product fetch
\* that raises keeps the buffer and moves to the next link; an extraction
\* raises nothing and keeps the buffer (a failed save: C8); a category
\* fetch, grid wait or link collection that raises keeps the buffer and
\* moves to the next page number; the loops are left only when the page
\* numbers are used up or shutdown was requested; none of these failures
\* reaches main, and crawl_category, when its finally has closed the page,
\* returns the buffer as it is.
C9_FailuresAreCaught ==
    /\ [](pc = "page_close" => (page_num > max_pages \/ is_shutting_down))
    /\ [](pc = "main_save" => main_exc = "none")
    /\ [][ /\ ( /\ pc = "sg_raise" /\ sg_ctx = "prod"
                 /\ pc' \notin {"sg_raise", "sg_check"} )
              => ( /\ products_data' = products_data
                   /\ pc' = "prod_loop"
                   /\ idx' = idx + 1
                   /\ page_num' = page_num )
           /\ ( /\ pc = "sg_raise" /\ sg_ctx = "cat"
                 /\ pc' \notin {"sg_raise", "sg_check"} )
              => ( /\ products_data' = products_data
                   /\ pc' = "page_loop"
                   /\ page_num' = page_num + 1 )
           /\ (pc = "extract" /\ pc' # pc)
              => (products_data' = products_data /\ pc' = "append")
           /\ (pc = "grid" /\ pc' \notin {"grid", "prod_loop"})
              => ( /\ products_data' = products_data
                   /\ pc' = "page_loop"
                   /\ page_num' = page_num + 1 )
           /\ (pc \in {"sg_raise", "grid", "extract", "append"})
              => main_exc' = main_exc
           /\ (pc = "page_close" /\ pc' # pc /\ page_state' = "closed")
              => (pc' = "main_save" /\ products_data' = products_data) ]_vars

\* C9 witness: with no shutdown requested and records in the buffer, a
\* product fetch has timed out, the exception was handled, and the product
\* loop stands before a further link of the page.
C9_Witness ==
    /\ ~is_shutting_down
    /\ pc = "prod_loop"
    /\ sg_result = "raised"
    /\ sg_ctx = "prod"
    /\ sg_exc = "PlaywrightTimeoutError"
    /\ products_data # << >>
    /\ idx <= Len(product_urls)

\* C10: when the title is missing on the fetched product page,
\* extract_product_data returns the empty record, the visit leaves the
\* buffer as it was, and the product loop moves to the next link.
C10_MissingTitleSkipsProduct ==
    /\ [](pc = "append" /\ page_title = "missing" => ~Truthy(product_data))
    /\ [][ (pc = "append" /\ page_title = "missing" /\ pc' # pc)
           => ( /\ products_data' = products_data
                /\ pc' = "prod_loop"
                /\ idx' = idx + 1
                /\ page_num' = page_num ) ]_vars

\* C10 witness: a product page without title was visited while the buffer
\* held a record, and the loop stands before a further link of the page.
C10_Witness ==
    /\ pc = "prod_loop"
    /\ page_title = "missing"
    /\ sg_result = "returned"
    /\ products_data # << >>
    /\ idx <= Len(product_urls)
    /\ ~is_shutting_down

\* The links of the records of a buffer, in order.
LinkIds(buf) == [ k \in DOMAIN buf |-> << buf[k].page, buf[k].link >> ]

\* C11: the buffer holds exactly one record for each visited product link
\* whose fetch returned and whose extraction found the title, in visit
\* order, and nothing else; every record has a non-empty url and timestamp.
\* (Between the extraction and the append of a visit the buffer is one
\* record behind.)
C11_BufferIsVisitedWithTitle ==
    /\ pc # "append" => LinkIds(products_data) = visited_ok
    /\ \A k \in DOMAIN products_data :
          /\ products_data[k].url # << >>
          /\ products_data[k].timestamp # ""

\* C11 witness: no shutdown, crawl_category has returned, and the buffer
\* holds exactly the records of the 2 links of page 1.
C11_Witness ==
    /\ ~is_shutting_down
    /\ pc = "main_save"
    /\ visited_ok = << << 1, 1 >>, << 1, 2 >> >>
    /\ LinkIds(products_data) = visited_ok

\* The first price candidate whose element is on the page, 0 if none is.
FirstExisting(cands) ==
    IF \A k \in DOMAIN cands : cands[k] = "absent" THEN 0
    ELSE CHOOSE k \in DOMAIN cands :
             /\ cands[k] # "absent"
             /\ \A j \in 1..(k - 1) : cands[j] = "absent"

\* The rows of table t that were read.
ReadRows(t) == { i \in DOMAIN t.rows : t.rows[i].read }

\* Row i of table t is the last of the read rows that have its label.
LastOfLabel(t, i) ==
    \A j \in ReadRows(t) :
        Strip(t.rows[j].th) = Strip(t.rows[i].th) => j <= i

\* Some optional field of page pg cannot be read.
SomeFieldFails(pg) ==
    \/ pg.rating = "fail"
    \/ pg.reviews_count = "fail"
    \/ pg.features # "items"
    \/ ~pg.details.ok
    \/ \E i \in DOMAIN pg.details.rows : ~pg.details.rows[i].read

\* What extract_product_data returns for the fields other than details on
\* a page with a title: rating and reviews_count are None exactly when
\* their read fails, features is [] exactly when its read fails, and the
\* price is the text of the first price element on the page.
OtherFieldsIntact ==
    /\ ex_rec # EmptyRec
    /\ ex_rec.title = "text"
    /\ ex_rec.url = "page.url"
    /\ ex_rec.timestamp = "isoformat"
    /\ ex_rec.rating = (IF ex_page.rating = "fail" THEN "None" ELSE "val")
    /\ ex_rec.reviews_count =
          (IF ex_page.reviews_count = "fail" THEN "None" ELSE "val")
    /\ (ex_page.features # "items" => ex_rec.features = << >>)
    /\ (ex_page.features = "items" => ex_rec.features = << "li1", "li2" >>)
    /\ (FirstExisting(ex_page.price) = 0 => ex_rec.price = NoPrice)
    /\ \A k \in 1..NumPriceSelectors :
          (FirstExisting(ex_page.price) = k /\ ex_page.price[k] = "text")
              => ex_rec.price = k

CountOf(s, c) == Cardinality({ i \in DOMAIN s : s[i] = c })

\* s is user:password@host:port: one "@", one ":" on each side of it.
HasProxyForm(s) ==
    \E i \in DOMAIN s :
        /\ s[i] = "@"
        /\ CountOf(s, "@") = 1
        /\ CountOf(SubSeq(s, 1, i - 1), ":") = 1
        /\ CountOf(SubSeq(s, i + 1, Len(s)), ":") = 1

\* C13: _get_random_proxy always returns (the call of new_context is
\* reached with no exception in flight); it returns None when the pool is
\* empty or the chosen string is not user:password@host:port; otherwise the
\* string it chose is an entry of the pool and is spelled back by the
\* username, password, host and port of the returned endpoint; the session
\* is created with exactly what was returned (None: direct connection); no
\* step changes the pool.
C13_ProxyFallsBackToDirect ==
    /\ [](/\ pc = "new_context" => main_exc = "none"
          /\ (proxy_calls > 0 /\ proxy_urls = << >>) => proxy_config = NoProxy
          /\ (proxy_calls > 0 /\ proxy_urls # << >>) =>
                /\ proxy_url \in Range(proxy_urls)
                /\ ~HasProxyForm(proxy_url) => proxy_config = NoProxy
                /\ HasProxyForm(proxy_url) =>
                      /\ proxy_config # NoProxy
                      /\ Len(proxy_config.server) > 0
                      /\ proxy_config.server[1] = "http://"
                      /\ proxy_url =
                            proxy_config.username \o << ":" >> \o
                            proxy_config.password \o << "@" >> \o
                            Tail(proxy_config.server)
          /\ page_state = "open" => context_proxy = proxy_config)
    /\ [][proxy_urls' = proxy_urls]_vars

\* A pool of two entries, the chosen one without any ":": the session is
\* direct and the first navigation is about to start.
C13_Witness ==
    /\ pc = "sg_goto"
    /\ page_state = "open"
    /\ proxy_urls = << << "a", "@", "a" >>, << ":", "@", ":" >> >>
    /\ proxy_url = << "a", "@", "a" >>
    /\ proxy_config = NoProxy
    /\ context_proxy = NoProxy
    /\ main_exc = "none"

\* C14: is_shutting_down starts false; a call of initiate_shutdown leaves
\* it true, at whatever point it is made, the end of the run included; a
\* call made when it is already true changes nothing of the crawler's
\* state; no step of the crawler, whichever it is, takes it from true to
\* false.
C14_FlagMonotonicIdempotent ==
    /\ ~is_shutting_down
    /\ [][initiate_shutdown => is_shutting_down']_vars
    /\ [][(is_shutting_down /\ initiate_shutdown)
             => UNCHANGED crawlerVars]_vars
    /\ [][is_shutting_down => is_shutting_down']_vars
    /\ [](shutdown_repeated => is_shutting_down)

\* The flag was set while records were in the buffer, initiate_shutdown
\* was called again with the flag true, and the run went on through the
\* final save and the close.
C14_Witness ==
    /\ is_shutting_down
    /\ shutdown_repeated
    /\ pc = "done"
    /\ page_state = "closed"
    /\ products_data # << >>
    /\ Cardinality(FinalFlushes) = 1

\* crawl_category has returned (or raised) to main.
Returned == pc \in {"main_save", "main_close", "done"}

\* A step that starts a further product-link iteration (the None check or
\* the fetch of the link) or a further category-page iteration.
StartsIteration ==
    \/ pc = "prod_loop" /\ pc' = "sg_check"
    \/ pc = "prod_loop" /\ idx' = idx + 1
    \/ pc = "page_loop" /\ pc' = "sg_check"

\* crawl_category is running on the page it created.
Crawling == page_state = "open" /\ ~Returned

\* C15: with is_shutting_down true, no step starts a product-link or a
\* category-page iteration, and the product loop and the page loop, when
\* reached, are left at once (by the next step of the crawler; a further
\* signal changes nothing of its state); every step keeps the records
\* already in the buffer; and once the flag is true during the crawl,
\* crawl_category eventually returns the buffer to main.
C15_ShutdownLeavesLoops ==
    /\ [][is_shutting_down => ~StartsIteration]_vars
    /\ [][(is_shutting_down /\ pc = "prod_loop")
             => pc' = "page_loop"]_crawlerVars
    /\ [][(is_shutting_down /\ pc = "page_loop")
             => pc' = "page_close"]_crawlerVars
    /\ [][IsPrefix(products_data, products_data')]_vars
    /\ ((is_shutting_down /\ Crawling) ~> pc = "main_save")

\* The outcomes of a navigation, each by its own condition on the answer.
OutcomeHolds(o, a) ==
    CASE o = "Timeout" -> a.timeout
      [] o = "TransportError" -> ~a.timeout /\ ~a.response
      [] o = "RateLimited" ->
            ~a.timeout /\ a.response /\ a.status \in {429, 503}
      [] o = "CaptchaChallenge" ->
            ~a.timeout /\ a.response /\ a.status \notin {429, 503} /\ a.captcha
      [] o = "RobotCheck" ->
            /\ ~a.timeout /\ a.response /\ a.status \notin {429, 503}
            /\ ~a.captcha /\ a.robot
      [] o = "Success" ->
            /\ ~a.timeout /\ a.response /\ a.status \notin {429, 503}
            /\ ~a.captcha /\ ~a.robot

Outcomes == {"Timeout", "TransportError", "RateLimited", "CaptchaChallenge",
             "RobotCheck", "Success"}

\* The last answer of the call.
LastAnswer == sg_hist[Len(sg_hist)]

\* C16: every answer has exactly one outcome, the one the checks of
\* _safe_get arrive at; a call that observed the shutdown flag at entry
\* navigates and sleeps nothing and raises GracefulExit; a call that ended
\* after a navigation raised the timeout for Timeout, raised without any
\* extra sleep for TransportError, raised after the single 20-30 s sleep for
\* RateLimited (CAPTCHA form or not), raised after the single 30-45 s sleep
\* for CaptchaChallenge and RobotCheck, and slept nothing extra for Success
\* (returning the content when the scroll sequence went through).
C16_OneOutcomeByPrecedence ==
    /\ \A i \in DOMAIN sg_hist :
          /\ Cardinality({ o \in Outcomes : OutcomeHolds(o, sg_hist[i]) }) = 1
          /\ OutcomeHolds(Classify(sg_hist[i]), sg_hist[i])
    /\ sg_extra = Len(sg_sleeps)
    /\ (CallEnded /\ sg_entry_flag) =>
          /\ sg_hist = << >> /\ sg_sleeps = << >>
          /\ sg_result = "raised" /\ sg_exc = "GracefulExit"
    /\ (CallEnded /\ ~sg_entry_flag) =>
          /\ sg_hist # << >>
          /\ OutcomeHolds("Timeout", LastAnswer) =>
                /\ sg_result = "raised" /\ sg_exc = "PlaywrightTimeoutError"
                /\ sg_sleeps = << >>
          /\ OutcomeHolds("TransportError", LastAnswer) =>
                /\ sg_result = "raised" /\ sg_exc = "Exception"
                /\ sg_sleeps = << >>
          /\ OutcomeHolds("RateLimited", LastAnswer) =>
                /\ sg_result = "raised" /\ sg_exc = "Exception"
                /\ sg_sleeps = << << 20, 30 >> >>
          /\ ( \/ OutcomeHolds("CaptchaChallenge", LastAnswer)
               \/ OutcomeHolds("RobotCheck", LastAnswer) ) =>
                /\ sg_result = "raised" /\ sg_exc = "Exception"
                /\ sg_sleeps = << << 30, 45 >> >>
          /\ OutcomeHolds("Success", LastAnswer) =>
                /\ sg_sleeps = << >>
                /\ LastAnswer.scroll_ok =>
                      sg_result = "returned" /\ sg_exc = "none"

\* A 429 page that also shows the CAPTCHA form and the robot-check title:
\* the call has raised after the rate-limit sleep only.
C16_Witness ==
    /\ CallEnded
    /\ sg_result = "raised"
    /\ sg_hist = << Answer(FALSE, TRUE, 429, TRUE, TRUE, TRUE) >>
    /\ sg_sleeps = << << 20, 30 >> >>

\* The first price candidate that is on the page with a non-empty text, 0
\* if there is none.
FirstWithText(cands) ==
    IF \A k \in DOMAIN cands : cands[k] # "text" THEN 0
    ELSE CHOOSE k \in DOMAIN cands :
             /\ cands[k] = "text"
             /\ \A j \in 1..(k - 1) : cands[j] # "text"

\* C17: on a page with a title, the price of the record is the text of the
\* first of the 7 candidates that exists with a non-empty text (a candidate
\* with an empty text is passed over), and it is None exactly when no
\* candidate has a non-empty text.
C17_PriceIsFirstNonEmptyCandidate ==
    (pc = "extracted" /\ ex_page.title = "text") =>
        ex_rec.price =
            (IF FirstWithText(ex_page.price) = 0 THEN NoPrice
             ELSE FirstWithText(ex_page.price))

\* C18: a navigation whose response passes every check (Success) ends the
\* call by returning the content, whether or not an action of the scroll
\* sequence raised; nothing is raised to crawl_category.
C18_ScrollFailureSwallowed ==
    ( /\ CallEnded
      /\ ~sg_entry_flag
      /\ sg_hist # << >>
      /\ Classify(LastAnswer) = "Success" )
    => (sg_result = "returned" /\ sg_exc = "none")

\* An answer whose outcome is a failure the fetch is to try again after.
Retryable(a) == Classify(a) # "Success"

LinkBefore(a, b) == a[1] < b[1] \/ (a[1] = b[1] /\ a[2] < b[2])

\* C20: the category fetch that a step starts is for the number that
\* follows the last one fetched (1 first) and never above max_pages; the
\* product fetch that a step starts is for a link of the page fetched last
\* that comes after every link fetched before; and crawl_category
\* eventually ends (by its return, or by the exception of a page.close()
\* that raised), whatever the fetches and extractions answer.
C20_CrawlTerminatesEachOnce ==
    /\ [](/\ last_cat <= max_pages
          /\ last_visit[1] <= last_cat)
    /\ [][(pc = "page_loop" /\ pc' = "sg_check")
             => (page_num = last_cat + 1 /\ page_num <= max_pages)]_vars
    /\ [][(pc = "prod_loop" /\ pc' = "sg_check")
             => ( /\ LinkBefore(last_visit, << page_num, idx >>)
                  /\ page_num = last_cat
                  /\ idx \in DOMAIN product_urls )]_vars
    /\ <>Returned

\* Both pages fetched and the last link of the second page visited, with
\* no shutdown: crawl_category has returned.
C20_Witness ==
    /\ ~is_shutting_down
    /\ pc = "main_save"
    /\ last_cat = max_pages
    /\ last_visit = << max_pages, MaxLinks >>
    /\ page_num = max_pages + 1

\* The positions at which the next step navigates, scrolls, reads the
\* product grid or extracts on the page.
UsesPage == pc \in {"sg_goto", "sg_scroll", "grid", "extract"}

\* C21: whenever crawl_category has returned to main the page it created
\* is closed; every step that leaves crawl_category past its loops calls
\* Page.close() on the open page, and the step that returns is the one
\* that closed it (a close that raises leaves crawl_category by that
\* exception, not by a return); a fetch or an extraction is only ever
\* about to run, and has only ever run, on the open page; and a closed
\* page stays closed through every later step, the close() of main
\* included.
C21_PageClosedOnReturn ==
    /\ [](/\ (Returned /\ main_exc = "none") => page_state = "closed"
          /\ pc = "main_save" => page_state = "closed"
          /\ UsesPage => page_state = "open"
          /\ ~use_after_close)
    /\ [][(pc = "page_close" /\ pc' # pc)
             => ( /\ page_state = "open"
                  /\ page_closes' = page_closes + 1
                  /\ (pc' = "main_save" /\ page_state' = "closed")
                     \/ (pc' = "main_close" /\ main_exc' = "Exception") )]_vars
    /\ [][page_state = "closed" => page_state' = "closed"]_vars

\* A crawl that left its loops on shutdown with records in the buffer: the
\* finally closed the page, close() of main called Page.close() on it a
\* second time, and nothing ran on the closed page.
C21_Witness ==
    /\ pc = "done"
    /\ is_shutting_down
    /\ products_data # << >>
    /\ page_state = "closed"
    /\ page_closes = 2
    /\ ~use_after_close

====
